---- MODULE Spec2Model ----
(***************************************************************************)
(* A model of the argdoc Sphinx extension (src/ext.py): the help-text      *)
(* table builder process_single_or_subprogram, the subcommand dispatcher   *)
(* process_subprogram_container, process_argparser and the event handler   *)
(* add_args_to_module_docstring.                                           *)
(*                                                                         *)
(* Text is modelled by TLA+ strings, one character at a time: the regular  *)
(* expressions of the `patterns` table are syntax trees run by a           *)
(* backtracking matcher with Python's priority order, and the str methods  *)
(* the code calls (rstrip, strip, capitalize, split, ...) are operators.   *)
(* The code is Python 2 (str pipes, app.warn/app.debug).                   *)
(***************************************************************************)
EXTENDS Integers, Sequences, FiniteSets, TLC

(***************************************************************************)
(* Characters and Python str methods                                       *)
(***************************************************************************)
Lowercase == "abcdefghijklmnopqrstuvwxyz"
Uppercase == "ABCDEFGHIJKLMNOPQRSTUVWXYZ"
Digits == "0123456789"
Char(s, i) == SubSeq(s, i, i)
CharsOf(s) == {Char(s, i) : i \in 1..Len(s)}
Whitespace == {" ", "\t", "\n", "\r", "\f"}
WordChars == CharsOf(Lowercase) \cup CharsOf(Uppercase) \cup CharsOf(Digits) \cup {"_"}

\* Recursion is kept logarithmic in the length of the text throughout.
SetMax(S) == CHOOSE m \in S : \A x \in S : x <= m
SetMin(S) == CHOOSE m \in S : \A x \in S : m <= x

\* s * n (the empty string when n <= 0)
RECURSIVE Times(_, _)
Times(s, n) ==
  IF n <= 0 THEN ""
  ELSE IF n = 1 THEN s
  ELSE LET half == Times(s, n \div 2)
       IN half \o half \o (IF n % 2 = 1 THEN s ELSE "")

\* "".join(ss[lo..hi]) and "".join(ss)
RECURSIVE JoinRange(_, _, _)
JoinRange(ss, lo, hi) ==
  IF lo > hi THEN ""
  ELSE IF lo = hi THEN ss[lo]
  ELSE LET mid == (lo + hi) \div 2
       IN JoinRange(ss, lo, mid) \o JoinRange(ss, mid + 1, hi)
Join(ss) == JoinRange(ss, 1, Len(ss))

\* s.rstrip(chars), s.lstrip(chars), s.strip(chars)
rstripOf(s, chars) ==
  LET keep == {i \in 1..Len(s) : Char(s, i) \notin chars}
  IN IF keep = {} THEN "" ELSE SubSeq(s, 1, SetMax(keep))
lstripOf(s, chars) ==
  LET keep == {i \in 1..Len(s) : Char(s, i) \notin chars}
  IN IF keep = {} THEN "" ELSE SubSeq(s, SetMin(keep), Len(s))
rstrip(s) == rstripOf(s, Whitespace)
strip(s) == lstripOf(rstripOf(s, Whitespace), Whitespace)
stripNewline(s) == lstripOf(rstripOf(s, {"\n"}), {"\n"})

\* A test that takes every string to begin with every prefix
startswithAlways(s, prefix) == TRUE
startswith(s, prefix) == Len(s) >= Len(prefix) /\ SubSeq(s, 1, Len(prefix)) = prefix
endswith(s, suffix) == Len(s) >= Len(suffix) /\ SubSeq(s, Len(s) - Len(suffix) + 1, Len(s)) = suffix

\* c.upper() and c.lower() of one character
UpperOf == [c \in CharsOf(Lowercase) |-> Char(Uppercase, CHOOSE i \in 1..Len(Lowercase) : Char(Lowercase, i) = c)]
LowerOf == [c \in CharsOf(Uppercase) |-> Char(Lowercase, CHOOSE i \in 1..Len(Uppercase) : Char(Uppercase, i) = c)]
upperChar(c) == IF c \in DOMAIN UpperOf THEN UpperOf[c] ELSE c
lowerChar(c) == IF c \in DOMAIN LowerOf THEN LowerOf[c] ELSE c
\* s.capitalize(): first character upper-cased, the rest lower-cased
capitalize(s) ==
  IF s = "" THEN ""
  ELSE upperChar(Char(s, 1)) \o Join([i \in 1..(Len(s) - 1) |-> lowerChar(Char(s, i + 1))])

\* s.split(sep) for a one-character separator: the pieces between the
\* separators, len(pieces) = number of separators + 1
split(s, sep) ==
  LET at == {i \in 1..Len(s) : Char(s, i) = sep}
      nth(k) == IF k = 0 THEN 0
                ELSE IF k > Cardinality(at) THEN Len(s) + 1
                ELSE CHOOSE p \in at : Cardinality({q \in at : q < p}) = k - 1
  IN [k \in 1..(Cardinality(at) + 1) |-> SubSeq(s, nth(k - 1) + 1, nth(k) - 1)]

\* max([len(X) for X in xs]) of a non-empty list
MaxLen(xs) == CHOOSE m \in {Len(xs[i]) : i \in 1..Len(xs)} : \A i \in 1..Len(xs) : Len(xs[i]) <= m

(***************************************************************************)
(* Regular expressions: syntax trees and re.search / re.match              *)
(***************************************************************************)
Cls(cs) == [t |-> "cls", neg |-> FALSE, cs |-> cs]
NotCls(cs) == [t |-> "cls", neg |-> TRUE, cs |-> cs]
Lit(c) == Cls({c})
Cat(rs) == [t |-> "cat", rs |-> rs]
Rep(r, min) == [t |-> "rep", r |-> r, min |-> min]
Opt(r) == [t |-> "opt", r |-> r]
Grp(name, r) == [t |-> "grp", name |-> name, r |-> r]
Bol == [t |-> "bol"]
Eol == [t |-> "eol"]
Str(lit) == [t |-> "str", lit |-> lit]
NonWs == NotCls(Whitespace)
Ws == Cls(Whitespace)
Word == Cls(WordChars)
Dot == NotCls({"\n"})

\* Does the one-character class r accept the character of s at position i
Accepts(r, s, i) == i >= 1 /\ i <= Len(s) /\ ((Char(s, i) \in r.cs) # r.neg)
\* The length of the longest run of characters from position i that r accepts
RunLength(r, s, i) == SetMin({j \in i..(Len(s) + 1) : ~Accepts(r, s, j)}) - i

\* The matches of r in s from state st = [pos, caps], in the order Python's
\* backtracking matcher tries them (greedy repetition, group taken first).
\* RunEach continues every state of sts, in order.
RECURSIVE Run(_, _, _), RunEach(_, _, _, _, _), RunCat(_, _, _, _), RunRep(_, _, _, _)
Run(r, s, st) ==
  CASE r.t = "cls" -> IF Accepts(r, s, st.pos) THEN <<[st EXCEPT !.pos = @ + 1]>> ELSE <<>>
    [] r.t = "str" -> IF st.pos + Len(r.lit) - 1 <= Len(s) /\ SubSeq(s, st.pos, st.pos + Len(r.lit) - 1) = r.lit
                      THEN <<[st EXCEPT !.pos = @ + Len(r.lit)]>> ELSE <<>>
    [] r.t = "bol" -> IF st.pos = 1 THEN <<st>> ELSE <<>>
    [] r.t = "eol" -> IF st.pos = Len(s) + 1 \/ (st.pos = Len(s) /\ Char(s, st.pos) = "\n")
                      THEN <<st>> ELSE <<>>
    [] r.t = "cat" -> RunCat(r.rs, 1, s, <<st>>)
    [] r.t = "opt" -> Run(r.r, s, st) \o <<st>>
    [] r.t = "rep" -> IF r.r.t = "cls"
                      THEN LET n == RunLength(r.r, s, st.pos)
                           IN [k \in 1..(n - r.min + 1) |-> [st EXCEPT !.pos = @ + n - k + 1]]
                      ELSE RunRep(r.r, r.min, s, st)
    [] r.t = "grp" -> LET inner == Run(r.r, s, st)
                      IN [k \in 1..Len(inner) |->
                            [inner[k] EXCEPT !.caps = (r.name :> SubSeq(s, st.pos, inner[k].pos - 1)) @@ @]]
RunEach(r, s, sts, lo, hi) ==
  IF lo > hi THEN <<>>
  ELSE IF lo = hi THEN Run(r, s, sts[lo])
  ELSE LET mid == (lo + hi) \div 2
       IN RunEach(r, s, sts, lo, mid) \o RunEach(r, s, sts, mid + 1, hi)
RunCat(rs, i, s, sts) ==
  IF i > Len(rs) THEN sts ELSE RunCat(rs, i + 1, s, RunEach(rs[i], s, sts, 1, Len(sts)))
RunRep(r, min, s, st) ==
  LET once == Run(r, s, st)
      RECURSIVE Each(_, _)
      Each(lo, hi) ==
        IF lo > hi THEN <<>>
        ELSE IF lo = hi
          THEN (IF once[lo].pos > st.pos
                THEN RunRep(r, IF min > 0 THEN min - 1 ELSE 0, s, once[lo]) ELSE <<>>)
        ELSE LET mid == (lo + hi) \div 2 IN Each(lo, mid) \o Each(mid + 1, hi)
  IN Each(1, Len(once)) \o (IF min = 0 THEN <<st>> ELSE <<>>)

\* The match object: None, or the end position and the captured groups.
None == [pos |-> 0, caps |-> <<>>]
match(r, s) ==
  LET res == Run(r, s, [pos |-> 1, caps |-> <<>>]) IN IF res = <<>> THEN None ELSE res[1]
\* A pattern that begins with ^ can only match at the start of the string.
Anchored(r) == r.t = "cat" /\ Len(r.rs) > 0 /\ r.rs[1].t = "bol"
search(r, s) ==
  IF Anchored(r) THEN match(r, s)
  ELSE LET hits == {i \in 1..(Len(s) + 1) : Run(r, s, [pos |-> i, caps |-> <<>>]) # <<>>}
       IN IF hits = {} THEN None ELSE Run(r, s, [pos |-> SetMin(hits), caps |-> <<>>])[1]

patterns ==
  [ \* ^(\w+.*):$
    section_title |-> Cat(<<Bol, Grp("1", Cat(<<Rep(Word, 1), Rep(Dot, 0)>>)), Lit(":"), Eol>>),
    \* ^  (-?[^\s]+(, --[^\s]+)?)$
    opt_only |-> Cat(<<Bol, Str("  "),
                       Grp("1", Cat(<<Opt(Lit("-")), Rep(NonWs, 1),
                                      Opt(Cat(<<Str(", --"), Rep(NonWs, 1)>>))>>)), Eol>>),
    \* ^  (-+[^\s]+)((?: [^-\s]+)+)(?:(?:, (--[^\s]+))((?: [^\s]+)+))?$
    opt_plus_args |-> Cat(<<Bol, Str("  "),
                            Cat(<<Rep(Lit("-"), 1), Rep(NonWs, 1)>>),
                            Rep(Cat(<<Lit(" "), Rep(NotCls(Whitespace \cup {"-"}), 1)>>), 1),
                            Opt(Cat(<<Cat(<<Str(", "), Cat(<<Str("--"), Rep(NonWs, 1)>>)>>),
                                      Rep(Cat(<<Lit(" "), Rep(NonWs, 1)>>), 1)>>)),
                            Eol>>),
    \* ^  (?P<left>-?[^\s]+(,\s--[^\s]+)?)\s\s+(?P<right>.*)
    opt_plus_desc |-> Cat(<<Bol, Str("  "),
                            Grp("left", Cat(<<Opt(Lit("-")), Rep(NonWs, 1),
                                              Opt(Cat(<<Lit(","), Ws, Lit("-"), Lit("-"), Rep(NonWs, 1)>>))>>)),
                            Ws, Rep(Ws, 1), Grp("right", Rep(Dot, 0))>>),
    \* ^  (?P<left>(-?-[^\s]+)( [^-\s]+)+( --[^\s]+( [^\s]+)+)?)  +(?P<right>\w+.*)$
    opt_plus_args_desc |-> Cat(<<Bol, Str("  "),
                                 Grp("left", Cat(<<Cat(<<Opt(Lit("-")), Lit("-"), Rep(NonWs, 1)>>),
                                                   Rep(Cat(<<Lit(" "), Rep(NotCls(Whitespace \cup {"-"}), 1)>>), 1),
                                                   Opt(Cat(<<Str(" --"), Rep(NonWs, 1),
                                                           Rep(Cat(<<Lit(" "), Rep(NonWs, 1)>>), 1)>>))>>)),
                                 Lit(" "), Rep(Lit(" "), 1),
                                 Grp("right", Cat(<<Rep(Word, 1), Rep(Dot, 0)>>)), Eol>>),
    \* ^ {24}(.*)
    continue_desc |-> Cat(<<Bol, Str(Times(" ", 24)), Grp("1", Rep(Dot, 0))>>),
    \* ^ (\s[^- ]+)+$
    section_desc |-> Cat(<<Bol, Lit(" "), Rep(Cat(<<Ws, Rep(NotCls({"-", " "}), 1)>>), 1), Eol>>),
    \* ^subcommands:$
    subcommands |-> Cat(<<Bol, Str("subcommands:"), Eol>>),
    \* ^  {((?:\w+)(?:(?:,(?:\w+))+)?)}$
    subcommand_names |-> Cat(<<Bol, Str("  {"),
                               Grp("1", Cat(<<Rep(Word, 1),
                                              Opt(Rep(Cat(<<Lit(","), Rep(Word, 1)>>), 1))>>)),
                               Lit("}"), Eol>>) ]

(***************************************************************************)
(* Program constants                                                       *)
(***************************************************************************)
OTHER_HEADER_LINES == split("Script contents\n---------------", "\n")
SUBCOMMAND_HEADER(indent) == indent \o "Subcommand arguments\n" \o indent \o "--------------------\n"
DefaultSectionName == "Command-line arguments"
\* process_argparser(app,obj,help_lines,indent_size=0,section_head=True)
HandlerIndentSize == 0
HandlerSectionHead == TRUE

(***************************************************************************)
(* State                                                                   *)
(***************************************************************************)
VARIABLES
  \* add_args_to_module_docstring(app,what,name,obj,options,lines)
  funcname,        \* app.config.argdoc_main_func: [type, value]
  what,            \* "module", "function", ...
  obj,             \* [name |-> obj.__name__, dict |-> obj.__dict__]
  lines,           \* the docstring lines, modified in place
  result,          \* out_lines of the handler: what process_argparser returned
  \* process_argparser and process_subprogram_container
  prog_help_lines, \* their help_lines: the program's own help text
  start_line,      \* index (from 0) of the 'subcommands:' line
  subcommands,     \* [bound, names]: the local is unbound until a line matches
  sub_index,       \* how many subcommands the for loop has completed
  container_out,   \* out_lines of process_subprogram_container
  \* the collaborators
  calls,           \* subprocess.Popen invocations: [argv, raises, status]
  app_log,         \* app.debug and app.warn messages: [level, text]
  \* the frame of process_single_or_subprogram
  help_lines, indent_size, section_head, section_name,
  lineno,          \* how many lines of help_lines the for loop has consumed
  started, out_lines, col1, col2, section_title, section_desc,
  caller,          \* who gets the result: "process_argparser", "container" or "none"
  \* control: the statement about to run and the exception in flight
  pc, exc

handlerVars == <<funcname, what, obj, lines, result>>
containerVars == <<prog_help_lines, start_line, subcommands, sub_index, container_out>>
worldVars == <<calls, app_log>>
tableVars == <<help_lines, indent_size, section_head, section_name, lineno,
               started, out_lines, col1, col2, section_title, section_desc, caller>>
vars == <<handlerVars, containerVars, worldVars, tableVars, pc, exc>>

(***************************************************************************)
(* Inputs: the help lines the table builder is run on                      *)
(***************************************************************************)
MaxLines == 4
HelpLineSet ==
  { "",
    "optional arguments:",
    "optional arguments: x",
    "group:",
    "  -h",
    "  -v, --verbose  be loud",
    "  -f FOO",
    "  -o OUT  out file",
    Times(" ", 24) \o "more ",
    "  some prose" }
\* Fewer line shapes, for longer help texts: several sections and tables,
\* and a positional argument without description
MaxLongLines == 5
LongLineSet ==
  { "",
    "optional arguments:",
    "group:",
    "  -h",
    "  -v, --verbose  be loud",
    "  some prose",
    "  foo",
    "usage:" }
TableArgs ==
  { [indent_size |-> 4, section_head |-> FALSE], [indent_size |-> 0, section_head |-> TRUE] }

\* What "python -m <module> [<subcommand>] --help" can print on its standard
\* output: a plain help text, a help text that lists subcommands, one whose
\* 'subcommands:' marker is followed by no name list, nothing at all, and a
\* help text whose first section starts with a wrapped description line.
PlainHelp ==
  "usage: prog [-h]\n\noptional arguments:\n  -h, --help  show this help message and exit\n"
SubcommandHelp == "usage: prog [-h] {add,remove} ...\n\nsubcommands:\n  {add,remove}\n"
MarkerOnlyHelp == "usage: prog [-h]\n\nsubcommands:\n"
WrappedHelp == "optional arguments:\n" \o Times(" ", 24) \o "more\n"
\* a help text with two marker lines before the name list
TwoMarkerHelp == "subcommands:\nsubcommands:\n  {add}\n"
Stdouts == {PlainHelp, SubcommandHelp, MarkerOnlyHelp, "", WrappedHelp, TwoMarkerHelp}
\* A child either cannot be started (Popen raises OSError) or runs, prints
\* and exits with a status that Popen and communicate do not look at.
ExitStatuses == {0, 2}
PopenOutcomes ==
  {[raises |-> "OSError", status |-> 0, stdout |-> ""]}
  \cup {[raises |-> "none", status |-> st, stdout |-> out] : st \in ExitStatuses, out \in Stdouts}

Elements(seq) == {seq[i] : i \in 1..Len(seq)}
KnownLines == HelpLineSet \cup LongLineSet \cup UNION {Elements(split(out, "\n")) : out \in Stdouts}


\* proc.communicate()[0].split("\n"), computed once for every known output
SplitTable == [out \in Stdouts |-> split(out, "\n")]
SplitLines(out) == IF out \in Stdouts THEN SplitTable[out] ELSE split(out, "\n")

\* What the code derives from a raw line before it branches:
\* line = line.rstrip(), line.strip(), line.strip("\n") and the result of
\* patterns[k].search(line) for every pattern k.
LineInfo(rawline) ==
  LET line == rstrip(rawline)
  IN [line |-> line, stripped |-> strip(line), unbroken |-> stripNewline(line),
      found |-> [k \in DOMAIN patterns |-> search(patterns[k], line)],
      \* patterns["subcommands"].match(line.strip("\n")) and
      \* patterns["subcommand_names"].search(line.strip("\n")) on the raw line
      marker |-> match(patterns.subcommands, stripNewline(rawline)),
      names |-> search(patterns.subcommand_names, stripNewline(rawline))]
\* LineInfo of every known line, computed once; any other line is computed
\* when it is met.
InfoTable == [l \in KnownLines |-> LineInfo(l)]
Info(rawline) == IF rawline \in KnownLines THEN InfoTable[rawline] ELSE LineInfo(rawline)

(***************************************************************************)
(* process_single_or_subprogram                                            *)
(***************************************************************************)
Indent == Times(" ", indent_size)

\* Which branch of the if/elif chain takes the line (info = Info(rawline)).
LineClass(info, isStarted) ==
  IF Len(info.stripped) = 0 /\ isStarted THEN "blank"
  ELSE IF startswith(info.line, "positional arguments:") \/ startswith(info.line, "optional arguments:")
    THEN "header"
  ELSE IF info.found.section_title # None /\ ~startswith(info.line, "usage:") THEN "title"
  ELSE IF info.found.section_desc # None /\ isStarted THEN "section_desc"
  ELSE IF info.found.opt_only # None /\ isStarted THEN "opt_only"
  ELSE IF info.found.opt_plus_args # None /\ isStarted THEN "opt_plus_args"
  ELSE IF info.found.continue_desc # None /\ isStarted THEN "continue_desc"
  ELSE IF info.found.opt_plus_desc # None /\ isStarted THEN "opt_plus_desc"
  ELSE IF info.found.opt_plus_args_desc # None /\ isStarted THEN "opt_plus_args_desc"
  ELSE "none"

\* The two backticks that wrap a label
Markup == Char("`'", 1) \o Char("`'", 1)

\* The rule line, the header line and one data row of a table.
RuleLine(indent, col1_width, col2_width) ==
  indent \o Times("=", col1_width) \o " " \o Times("=", col2_width)
HeaderLine(indent, col1_width) ==
  indent \o "*Option*" \o Times(" ", 1 + col1_width - 8) \o "*Description*"
\* A data row with a single blank between the label and the description
RowLineTight(indent, col1_width, c1, c2) == indent \o Markup \o c1 \o Markup \o " " \o c2
RowLine(indent, col1_width, c1, c2) ==
  indent \o Markup \o c1 \o Markup \o Times(" ", 1 + col1_width - Len(c1)) \o c2

\* The data rows written last row first
DataRowsReversed(indent, col1_width, c1s, c2s) ==
  [i \in 1..(IF Len(c1s) < Len(c2s) THEN Len(c1s) ELSE Len(c2s)) |->
     RowLine(indent, col1_width, c1s[Len(c1s) + 1 - i], c2s[Len(c2s) + 1 - i])]
\* for c1, c2 in zip(col1,col2): one data row each, in list order
DataRows(indent, col1_width, c1s, c2s) ==
  [i \in 1..(IF Len(c1s) < Len(c2s) THEN Len(c1s) ELSE Len(c2s)) |->
     RowLine(indent, col1_width, c1s[i], c2s[i])]

\* The lines one flush appends to out_lines (the rows are not empty).
FlushLines(indent, title, desc, c1s, c2s) ==
  LET col1_width == 1 + MaxLen(c1s) + 4
      col2_width == MaxLen(c2s)
      rule == RuleLine(indent, col1_width, col2_width)
  IN <<"", "">> \o title \o desc
     \o <<"", rule, HeaderLine(indent, col1_width), rule>>
     \o DataRows(indent, col1_width, c1s, c2s)
     \o <<rule, "">>

\* No title lines at all
TitleLinesNone(indent, name, underline) == <<>>
\* section_title for a captured title and an underline character
TitleLines(indent, name, underline) ==
  <<indent \o capitalize(name), indent \o Times(underline, Len(name))>>

\* The heading emitted on the first canonical header when section_head is set
HeadingLines(indent, name) == <<indent \o name, indent \o Times("-", Len(name))>>

\* The text appended to the first row instead of the last
ContinueDescFirst(c2s, text) == [c2s EXCEPT ![1] = @ \o text]
\* col2[-1] += line.strip("\n")
ContinueDesc(c2s, text) == [c2s EXCEPT ![Len(c2s)] = @ \o text]

\* The locals of the loop, and the result of one iteration on them: the
\* locals afterwards and the exception the iteration raises ("none" when it
\* completes).  info = Info(rawline), cls = LineClass(info, started).
Locals ==
  [started |-> started, out_lines |-> out_lines, col1 |-> col1, col2 |-> col2,
   section_title |-> section_title, section_desc |-> section_desc, exc |-> "none"]
LoopBranch(info, cls, cur) ==
  CASE cls = "blank" ->
         IF Len(col1) > 0 /\ Len(col2) > 0
         THEN [cur EXCEPT !.out_lines = @ \o FlushLines(Indent, section_title, section_desc, col1, col2),
                          !.section_title = <<>>, !.section_desc = <<>>,
                          !.col1 = <<>>, !.col2 = <<>>]
         ELSE cur
    [] cls = "header" ->
         IF info.found.section_title = None
         THEN [cur EXCEPT !.started = TRUE,
                          !.out_lines = IF ~started /\ section_head
                                        THEN @ \o HeadingLines(Indent, section_name) ELSE @,
                          !.exc = "AttributeError"]
         ELSE [cur EXCEPT !.started = TRUE,
                          !.out_lines = IF ~started /\ section_head
                                        THEN @ \o HeadingLines(Indent, section_name) ELSE @,
                          !.section_title = TitleLines(Indent, info.found.section_title.caps["1"], ".")]
    [] cls = "title" ->
         [cur EXCEPT !.section_title = TitleLines(Indent, info.found.section_title.caps["1"], "\"")]
    [] cls = "section_desc" -> [cur EXCEPT !.section_desc = Append(@, info.stripped)]
    [] cls \in {"opt_only", "opt_plus_args"} ->
         [cur EXCEPT !.col1 = Append(@, info.stripped), !.col2 = Append(@, "")]
    [] cls = "continue_desc" ->
         IF Len(col2) = 0 THEN [cur EXCEPT !.exc = "IndexError"]
         ELSE [cur EXCEPT !.col2 = ContinueDesc(@, info.unbroken)]
    [] cls = "opt_plus_desc" ->
         [cur EXCEPT !.col1 = Append(@, info.found.opt_plus_desc.caps["left"]),
                     !.col2 = Append(@, info.found.opt_plus_desc.caps["right"])]
    [] cls = "opt_plus_args_desc" ->
         [cur EXCEPT !.col1 = Append(@, info.found.opt_plus_args_desc.caps["left"]),
                     !.col2 = Append(@, info.found.opt_plus_args_desc.caps["right"])]
    [] OTHER -> cur
LoopOn(info) == LoopBranch(info, LineClass(info, started), Locals)
\* One iteration of the for loop on the raw line
LoopBody(rawline) == LoopOn(Info(rawline))

\* The call: the arguments and the locals as initialised at lines 180-186
CallTable(lines_in, name, who) ==
  /\ help_lines' = lines_in
  /\ indent_size' = HandlerIndentSize
  /\ section_head' = HandlerSectionHead
  /\ section_name' = name
  /\ lineno' = 0
  /\ started' = FALSE
  /\ out_lines' = <<>>
  /\ col1' = <<>>
  /\ col2' = <<>>
  /\ section_title' = <<>>
  /\ section_desc' = <<>>
  /\ caller' = who
  /\ pc' = "for_line"

\* for line in help_lines: ... (one iteration)
ForLine ==
  /\ pc = "for_line"
  /\ lineno < Len(help_lines)
  /\ \E after \in {LoopBody(help_lines[lineno + 1])} :
        /\ started' = after.started
        /\ out_lines' = after.out_lines
        /\ col1' = after.col1
        /\ col2' = after.col2
        /\ section_title' = after.section_title
        /\ section_desc' = after.section_desc
        /\ exc' = after.exc
        /\ pc' = IF after.exc = "none" THEN "for_line"
                 ELSE IF caller = "none" THEN "raised" ELSE "except"
  /\ lineno' = lineno + 1
  /\ UNCHANGED <<help_lines, indent_size, section_head, section_name, caller>>
  /\ UNCHANGED <<handlerVars, containerVars, worldVars>>

\* return out_lines: to whoever called, process_argparser (line 307), the
\* for loop of process_subprogram_container (line 140), or the outside
ReturnOutLines ==
  /\ pc = "for_line"
  /\ lineno = Len(help_lines)
  /\ CASE caller = "process_argparser" ->
            /\ result' = out_lines
            /\ pc' = "extend"
            /\ UNCHANGED <<funcname, what, obj, lines, containerVars>>
       [] caller = "container" ->
            /\ container_out' = container_out \o out_lines
            /\ sub_index' = sub_index + 1
            /\ pc' = "for_subcommand"
            /\ UNCHANGED <<handlerVars, prog_help_lines, start_line, subcommands>>
       [] OTHER ->
            /\ pc' = "returned"
            /\ UNCHANGED <<handlerVars, containerVars>>
  /\ UNCHANGED <<tableVars, worldVars, exc>>

(***************************************************************************)
(* subprocess, shlex and the logging sink                                  *)
(***************************************************************************)
\* shlex.split("python -m %s --help") and shlex.split("python -m %s %s --help")
\* for names without blanks or quotes
CommandLine(words) == <<"python", "-m">> \o words \o <<"--help">>
Debug(text) == Append(app_log, [level |-> "debug", text |-> text])
Warn(text) == Append(app_log, [level |-> "warn", text |-> text])
\* ", ".join(names)
RECURSIVE JoinComma(_)
JoinComma(names) ==
  IF Len(names) = 0 THEN ""
  ELSE IF Len(names) = 1 THEN names[1]
  ELSE names[1] \o ", " \o JoinComma(Tail(names))

(***************************************************************************)
(* process_subprogram_container                                            *)
(***************************************************************************)
\* The first line after start_line that matches subcommand_names, split at
\* the commas; unbound when no line matches (the loop ends without a break).
FindSubcommands(hl, start) ==
  LET hits == {i \in (start + 2)..Len(hl) : Info(hl[i]).names # None}
  IN IF hits = {} THEN [bound |-> FALSE, names |-> <<>>]
     ELSE [bound |-> TRUE, names |-> split(Info(hl[SetMin(hits)]).names.caps["1"], ",")]

\* Lines 127-134: the heading block, the scan for the name list and the
\* debug message, which reads the local `subcommands`.
ContainerStart ==
  /\ pc = "container"
  /\ container_out' = split(SUBCOMMAND_HEADER(Times(" ", HandlerIndentSize)), "\n")
  /\ LET found == FindSubcommands(prog_help_lines, start_line)
     IN /\ subcommands' = found
        /\ IF found.bound
           THEN /\ app_log' = Debug(obj.name \o " subcommands: " \o JoinComma(found.names))
                /\ pc' = "for_subcommand"
                /\ exc' = "none"
           ELSE /\ app_log' = app_log
                /\ pc' = "except"
                /\ exc' = "UnboundLocalError"
  /\ sub_index' = 0
  /\ UNCHANGED <<handlerVars, prog_help_lines, start_line, calls, tableVars>>

\* Lines 135-143: one subcommand is fetched, then the table builder is
\* called on what it printed.  Popen and communicate raise OSError, never
\* CalledProcessError, so the except clause of line 144 catches nothing.
FetchSubcommand ==
  /\ pc = "for_subcommand"
  /\ sub_index < Len(subcommands.names)
  /\ \E outcome \in PopenOutcomes :
       LET subcommand == subcommands.names[sub_index + 1]
       IN /\ calls' = Append(calls, [argv |-> CommandLine(<<obj.name, subcommand>>),
                                      raises |-> outcome.raises, status |-> outcome.status])
          /\ IF outcome.raises = "CalledProcessError"
             THEN /\ app_log' = Warn("Could not call module " \o obj.name)
                  /\ sub_index' = sub_index + 1
                  /\ UNCHANGED <<tableVars, pc, exc>>
             ELSE IF outcome.raises # "none"
             THEN /\ exc' = outcome.raises
                  /\ pc' = "except"
                  /\ UNCHANGED <<tableVars, sub_index, app_log>>
             ELSE /\ CallTable(SplitLines(outcome.stdout),
                               Markup \o subcommand \o Markup \o " subprogram", "container")
                  /\ UNCHANGED <<sub_index, app_log, exc>>
  /\ UNCHANGED <<handlerVars, prog_help_lines, start_line, subcommands, container_out>>

\* return out_lines (line 151), through process_argparser (line 311)
ReturnContainer ==
  /\ pc = "for_subcommand"
  /\ sub_index = Len(subcommands.names)
  /\ result' = container_out
  /\ pc' = "extend"
  /\ UNCHANGED <<funcname, what, obj, lines, containerVars, worldVars, tableVars, exc>>

(***************************************************************************)
(* process_argparser                                                       *)
(***************************************************************************)
\* No line is taken for the marker
MarkerLinesNone(hl) == {}
\* The indices (from 0) of the lines that are the 'subcommands:' marker
MarkerLines(hl) ==
  {n \in 0..(Len(hl) - 1) : Info(hl[n + 1]).marker # None}

\* Lines 294-309
ProcessArgparser ==
  /\ pc = "process_argparser"
  /\ IF MarkerLines(prog_help_lines) # {}
     THEN /\ app_log' = Debug(obj.name \o " has subcommands")
          /\ start_line' = SetMin(MarkerLines(prog_help_lines))
          /\ pc' = "container"
          /\ UNCHANGED tableVars
     ELSE /\ app_log' = Debug(obj.name \o " has no subcommands")
          /\ CallTable(prog_help_lines, DefaultSectionName, "process_argparser")
          /\ UNCHANGED start_line
  /\ UNCHANGED <<handlerVars, prog_help_lines, subcommands, sub_index, container_out, calls, exc>>

(***************************************************************************)
(* noargdoc and add_args_to_module_docstring                               *)
(***************************************************************************)
\* A lookup that ignores the dict and answers with the default
DictGetDefault(d, k, default) == default
\* d.get(k, default) of a dict modelled as a function
DictGet(d, k, default) == IF k \in DOMAIN d THEN d[k] ELSE default
\* A function object is modelled by its __dict__, a map from attribute names
\* to booleans; PlainFunction has no attributes.
PlainFunction == [a \in {} |-> TRUE]
\* func.__dict__["noargdoc"] = True; return func
noargdoc(func) == [a \in DOMAIN func \cup {"noargdoc"} |-> IF a = "noargdoc" THEN TRUE ELSE func[a]]

\* Lines 357-364: the configuration check and the two guards.  ConfigError
\* is neither imported nor defined in the module, so evaluating the raise
\* statement raises NameError.
HandlerEntry ==
  /\ pc = "handler"
  /\ IF funcname.type # "str"
     THEN /\ pc' = "raised"
          /\ exc' = "NameError"
     ELSE /\ exc' = exc
          /\ IF /\ what = "module"
                /\ funcname.value \in DOMAIN obj.dict
                /\ DictGet(obj.dict[funcname.value], "noargdoc", FALSE) = FALSE
             THEN pc' = "fetch"
             ELSE pc' = "returned"
  /\ UNCHANGED <<handlerVars, containerVars, worldVars, tableVars>>

\* Lines 364-373: the program's help text is fetched.  As in
\* FetchSubcommand only OSError can be raised, and it is not caught.  After
\* the except clause help_lines would be unbound at line 375.
FetchHelp ==
  /\ pc = "fetch"
  /\ \E outcome \in PopenOutcomes :
       /\ calls' = Append(calls, [argv |-> CommandLine(<<obj.name>>),
                                  raises |-> outcome.raises, status |-> outcome.status])
       /\ IF outcome.raises = "CalledProcessError"
          THEN /\ app_log' = Warn("Could not call module " \o obj.name)
               /\ exc' = "UnboundLocalError"
               /\ pc' = "except"
               /\ UNCHANGED prog_help_lines
          ELSE IF outcome.raises # "none"
          THEN /\ exc' = outcome.raises
               /\ pc' = "raised"
               /\ UNCHANGED <<prog_help_lines, app_log>>
          ELSE /\ prog_help_lines' = SplitLines(outcome.stdout)
               /\ pc' = "process_argparser"
               /\ UNCHANGED <<app_log, exc>>
  /\ UNCHANGED <<handlerVars, start_line, subcommands, sub_index, container_out, tableVars>>

\* Lines 376-377
ExtendLines ==
  /\ pc = "extend"
  /\ lines' = lines \o result \o OTHER_HEADER_LINES
  /\ pc' = "returned"
  /\ UNCHANGED <<funcname, what, obj, result, containerVars, worldVars, tableVars, exc>>

\* Lines 374-379: an exception leaves process_argparser; IndexError is
\* caught and reported, anything else leaves the handler.
ExceptIndexError ==
  /\ pc = "except"
  /\ IF exc = "IndexError"
     THEN /\ app_log' = Warn("Error processing argparser into docstring for module " \o obj.name \o ": ")
          /\ exc' = "none"
          /\ pc' = "returned"
     ELSE /\ pc' = "raised"
          /\ UNCHANGED <<app_log, exc>>
  /\ UNCHANGED <<handlerVars, containerVars, calls, tableVars>>

(***************************************************************************)
(* The extension handling one autodoc-process-docstring event              *)
(***************************************************************************)
MainFuncs == {[type |-> "str", value |-> "main"], [type |-> "int", value |-> "1"]}
Whats == {"module", "function"}
ModuleDicts ==
  { [a \in {} |-> PlainFunction],
    [a \in {"main"} |-> PlainFunction],
    [a \in {"main"} |-> noargdoc(PlainFunction)] }
Docstrings == {<<>>, <<"Does things.", "">>}

TableIdle ==
  /\ help_lines = <<>>
  /\ indent_size = HandlerIndentSize
  /\ section_head = HandlerSectionHead
  /\ section_name = DefaultSectionName
  /\ lineno = 0
  /\ started = FALSE
  /\ out_lines = <<>>
  /\ col1 = <<>>
  /\ col2 = <<>>
  /\ section_title = <<>>
  /\ section_desc = <<>>
CallerIdle ==
  /\ result = <<>>
  /\ prog_help_lines = <<>>
  /\ start_line = 0
  /\ subcommands = [bound |-> FALSE, names |-> <<>>]
  /\ sub_index = 0
  /\ container_out = <<>>
  /\ calls = <<>>
  /\ app_log = <<>>
  /\ exc = "none"

Init ==
  /\ funcname \in MainFuncs
  /\ what \in Whats
  /\ obj \in {[name |-> "prog", dict |-> d] : d \in ModuleDicts}
  /\ lines \in Docstrings
  /\ CallerIdle
  /\ TableIdle
  /\ caller = "none"
  /\ pc = "handler"

Next ==
  \/ HandlerEntry
  \/ FetchHelp
  \/ ProcessArgparser
  \/ ContainerStart
  \/ FetchSubcommand
  \/ ReturnContainer
  \/ ForLine
  \/ ReturnOutLines
  \/ ExtendLines
  \/ ExceptIndexError
Spec == Init /\ [][Next]_vars

(***************************************************************************)
(* The table builder on its own: every help-line sequence of at most       *)
(* MaxLines lines over HelpLineSet, with the default arguments and with    *)
(* the arguments add_args_to_module_docstring passes.                      *)
(***************************************************************************)
TableInit ==
  /\ help_lines \in UNION {[1..k -> HelpLineSet] : k \in 0..MaxLines}
  /\ \E a \in TableArgs : indent_size = a.indent_size /\ section_head = a.section_head
  /\ section_name = DefaultSectionName
  /\ lineno = 0
  /\ started = FALSE
  /\ out_lines = <<>>
  /\ col1 = <<>>
  /\ col2 = <<>>
  /\ section_title = <<>>
  /\ section_desc = <<>>
  /\ caller = "none"
  /\ pc = "for_line"
  /\ funcname = [type |-> "str", value |-> "main"]
  /\ what = "module"
  /\ obj = [name |-> "prog", dict |-> [a \in {"main"} |-> PlainFunction]]
  /\ lines = <<>>
  /\ CallerIdle

TableNext == ForLine \/ ReturnOutLines
SpecTable == TableInit /\ [][TableNext]_vars

\* The table builder on the help texts of at most MaxLongLines lines over
\* LongLineSet
LongInit ==
  /\ help_lines \in UNION {[1..k -> LongLineSet] : k \in 0..MaxLongLines}
  /\ \E a \in TableArgs : indent_size = a.indent_size /\ section_head = a.section_head
  /\ section_name = DefaultSectionName
  /\ lineno = 0
  /\ started = FALSE
  /\ out_lines = <<>>
  /\ col1 = <<>>
  /\ col2 = <<>>
  /\ section_title = <<>>
  /\ section_desc = <<>>
  /\ caller = "none"
  /\ pc = "for_line"
  /\ funcname = [type |-> "str", value |-> "main"]
  /\ what = "module"
  /\ obj = [name |-> "prog", dict |-> [a \in {"main"} |-> PlainFunction]]
  /\ lines = <<>>
  /\ CallerIdle
SpecLong == LongInit /\ [][TableNext]_vars

(***************************************************************************)
(* Properties of process_single_or_subprogram, stated for SpecTable        *)
(***************************************************************************)
\* The table builder has returned to its caller outside the extension
TableReturned == pc = "returned" /\ caller = "none"
\* The for loop is about to process a line; NextLine is that line
AtLine == pc = "for_line" /\ lineno < Len(help_lines)
NextLine == help_lines[lineno + 1]
\* The branches of the loop that open a row
RowClasses == {"opt_only", "opt_plus_args", "opt_plus_desc", "opt_plus_args_desc"}
\* A line that opens a row once the first canonical header has been seen
OpensRow(rawline) == LineClass(Info(rawline), TRUE) \in RowClasses
\* block occurs as consecutive lines of seq
Occurs(block, seq) ==
  \E p \in 0..(Len(seq) - Len(block)) : SubSeq(seq, p + 1, p + Len(block)) = block
\* The lines a step appends to out_lines
Added == SubSeq(out_lines', Len(out_lines) + 1, Len(out_lines'))

\* Claim C1: whatever the help lines and whatever section_head, when no line
\* of the input opens a row the returned output is empty: no heading line,
\* no title line, no table line.
C1_NoRowsNoOutput ==
  (TableReturned /\ \A i \in 1..Len(help_lines) : ~OpensRow(help_lines[i]))
    => out_lines = <<>>

\* Claim C2: when the input ends while the current section still holds at
\* least one row, that section is flushed: its title and a table of all its
\* rows are in the returned output.
C2_OpenSectionFlushedAtEnd ==
  (TableReturned /\ Len(col1) > 0 /\ Len(col2) > 0)
    => Occurs(FlushLines(Indent, section_title, section_desc, col1, col2), out_lines)

\* line is a rule line, the header line, or the data row of a label and a
\* description, at the current indentation
IsRule(line) ==
  /\ startswith(line, Indent \o "=")
  /\ \A i \in (Len(Indent) + 1)..Len(line) : Char(line, i) \in {"=", " "}
IsHeader(line) ==
  /\ startswith(line, Indent \o "*Option*")
  /\ endswith(line, "*Description*")
IsDataRow(line) == startswith(line, Indent \o Markup)
IsRowOf(line, label, desc) ==
  LET gap == Len(line) - Len(Indent) - Len(label) - Len(desc) - 4
  IN /\ gap >= 1
     /\ line = Indent \o Markup \o label \o Markup \o Times(" ", gap) \o desc
\* text is a label, any blanks, and a description
IsLabelThenDesc(text, label, desc) ==
  LET gap == Len(text) - Len(label) - Len(desc)
  IN gap >= 0 /\ text = label \o Times(" ", gap) \o desc

\* A step that opens a row: the row goes to the end of the buffers, with the
\* label and the description read from the line
RowOpenedInOrder ==
  /\ Len(col1') = Len(col1) + 1
  /\ Len(col2') = Len(col2) + 1
  /\ SubSeq(col1', 1, Len(col1)) = col1
  /\ SubSeq(col2', 1, Len(col2)) = col2
  /\ IsLabelThenDesc(strip(NextLine), col1'[Len(col1')], col2'[Len(col2')])
\* A step that flushes N rows: the lines appended end with rule, header,
\* rule, the N data rows in buffer order, rule, blank; no other appended
\* line is a data row
TableOfSection ==
  LET N == Len(col1)
      L == Len(Added)
  IN /\ Len(col2) = N
     /\ L >= N + 5
     /\ IsRule(Added[L - N - 4])
     /\ IsHeader(Added[L - N - 3])
     /\ IsRule(Added[L - N - 2])
     /\ \A i \in 1..N : IsRowOf(Added[L - N - 2 + i], col1[i], col2[i])
     /\ IsRule(Added[L - 1])
     /\ Added[L] = ""
     /\ \A j \in 1..(L - N - 2) : ~IsDataRow(Added[j])

\* Claim C3: a section that has accumulated N >= 1 rows is emitted as a table
\* of exactly N data rows, one per row, in the order the rows were met in
\* the input, each with its row's label and description; a rule line stands
\* directly before and directly after the data rows, under one header line.
\* Rows enter the buffers only at the end, and leave them only when the
\* table is emitted.
C3_TableHasRowsInOrder ==
  [][/\ (AtLine /\ OpensRow(NextLine) /\ started /\ exc' = "none") => RowOpenedInOrder
     /\ col1' # col1 => \/ RowOpenedInOrder
                        \/ (Len(col1) > 0 /\ col1' = <<>> /\ col2' = <<>>)
     /\ (Len(col1) > 0 /\ col1' = <<>>) => TableOfSection
     /\ Len(out_lines') > Len(out_lines) /\ (\E j \in 1..Len(Added) : IsDataRow(Added[j]))
          => (Len(col1) > 0 /\ col1' = <<>>)]_vars
\* A table of two rows has been emitted
C3_Witness ==
  /\ pc = "for_line"
  /\ col1 = <<>>
  /\ \E j \in 1..(Len(out_lines) - 1) : IsDataRow(out_lines[j]) /\ IsDataRow(out_lines[j + 1])
                                        /\ out_lines[j] # out_lines[j + 1]

\* Claim C4: a continuation-of-description line met while the row buffers
\* are empty has no effect: the parse state and the output are unchanged,
\* nothing is raised, and the loop goes on to the next line.
C4_ContinuationWithoutRowIsNoOp ==
  [][(AtLine /\ Len(col2) = 0 /\ LineClass(Info(NextLine), started) = "continue_desc")
       => /\ pc' = "for_line"
          /\ exc' = "none"
          /\ UNCHANGED <<started, out_lines, col1, col2, section_title, section_desc>>]_vars

\* A continuation line is about to be processed while a row is open
ContinuationOfRow ==
  AtLine /\ Len(col2) > 0 /\ LineClass(Info(NextLine), started) = "continue_desc"
\* Claim C5 as stated: the description of the most recently opened row
\* becomes the old description followed by the continuation line with its
\* leading and trailing whitespace removed; nothing else changes.
C5_ContinuationAppendsStripped ==
  [][ContinuationOfRow
       => /\ col1' = col1
          /\ col2' = [col2 EXCEPT ![Len(col2)] = @ \o strip(NextLine)]]_vars
\* Claim C5, amended: the description of the most recently opened row
\* becomes the old description followed by the continuation line with its
\* trailing whitespace removed and its leading indentation kept; all other
\* descriptions and all labels are unchanged.
C5_ContinuationAppendsIndented ==
  [][ContinuationOfRow
       => /\ col1' = col1
          /\ Len(col2') = Len(col2)
          /\ \A i \in 1..(Len(col2) - 1) : col2'[i] = col2[i]
          /\ col2'[Len(col2)] = col2[Len(col2)] \o rstrip(NextLine)
          /\ exc' = "none"]_vars
\* A continuation line has been appended to the second of two open rows
C5_Witness ==
  /\ pc = "for_line"
  /\ lineno >= 1
  /\ LineClass(Info(help_lines[lineno]), TRUE) = "continue_desc"
  /\ Len(col2) >= 2
  /\ endswith(col2[Len(col2)], rstrip(help_lines[lineno]))
  /\ Len(col2[Len(col2)]) > Len(rstrip(help_lines[lineno]))

(***************************************************************************)
(* Properties of process_subprogram_container and of                       *)
(* add_args_to_module_docstring, stated for Spec                          *)
(***************************************************************************)
\* The handler is over: it returned, or an exception left it
HandlerOver == pc \in {"returned", "raised"}
\* app.warn has been called
Warned == \E i \in 1..Len(app_log) : app_log[i].level = "warn"
\* The invocation recorded in a call did not succeed: the program could not
\* be run, or it exited with a non-zero status
Failed(call) == call.raises # "none" \/ call.status # 0

\* Claim C6: for the listed names n1..nk the dispatcher performs exactly k
\* fetch-and-parse operations, one per name, in listed order, and its output
\* starts with the fixed 'Subcommand arguments' heading block.
C6_OneFetchPerSubcommandInOrder ==
  (HandlerOver /\ subcommands.bound)
    => LET k == Len(subcommands.names)
       IN /\ Len(calls) = 1 + k
          /\ \A i \in 1..k : calls[1 + i].argv = CommandLine(<<obj.name, subcommands.names[i]>>)
          /\ sub_index = k
          /\ SubSeq(container_out, 1, 3) = split(SUBCOMMAND_HEADER(Times(" ", HandlerIndentSize)), "\n")

\* Claim C7: when the fetch of one subcommand fails, no output line is added
\* for it, app.warn receives a diagnostic, and the dispatcher goes on with
\* the next listed subcommand.
C7_FailedSubcommandIsSkipped ==
  [][(pc = "for_subcommand" /\ Len(calls') = Len(calls) + 1 /\ Failed(calls'[Len(calls')]))
       => /\ container_out' = container_out
          /\ Len(app_log') = Len(app_log) + 1
          /\ app_log'[Len(app_log')].level = "warn"
          /\ sub_index' = sub_index + 1
          /\ pc' = "for_subcommand"]_vars

\* The fetch of the program's own help text did not succeed
TopFetchFailed == Len(calls) >= 1 /\ Failed(calls[1])
\* Claim C8: when the top-level help fetch fails, the failure is reported to
\* the logging sink, the docstring lines are left unchanged and the handler
\* returns normally.
C8_FailedFetchSkipsModule ==
  /\ []((TopFetchFailed /\ HandlerOver) => (pc = "returned" /\ Warned))
  /\ [][TopFetchFailed' => lines' = lines]_vars

\* The fetched help text has a 'subcommands:' marker line and no later line
\* with a bracketed list of names
MarkerWithoutNames ==
  /\ MarkerLines(prog_help_lines) # {}
  /\ ~FindSubcommands(prog_help_lines, SetMin(MarkerLines(prog_help_lines))).bound
\* Claim C9: when the help text has a 'subcommands:' marker and no name
\* list after it, the failure is reported to the logging sink, the docstring
\* lines are left unchanged and the handler returns normally.
C9_MalformedHelpIsReported ==
  /\ []((MarkerWithoutNames /\ HandlerOver) => (pc = "returned" /\ Warned))
  /\ [][MarkerWithoutNames => lines' = lines]_vars

\* The module's entry-point function carries the noargdoc marker
HasOptOut ==
  /\ funcname.value \in DOMAIN obj.dict
  /\ "noargdoc" \in DOMAIN obj.dict[funcname.value]
  /\ obj.dict[funcname.value]["noargdoc"] = TRUE
\* Claim C10: when the entry-point function carries the noargdoc marker the
\* handler invokes no subprocess, never calls process_argparser, and leaves
\* the docstring lines unchanged.
C10_OptOutSkipsModule ==
  /\ [](HasOptOut => /\ calls = <<>>
                     /\ app_log = <<>>
                     /\ result = <<>>
                     /\ pc \in {"handler", "returned"})
  /\ [][HasOptOut => lines' = lines]_vars
\* The handler has returned for a module whose entry point is marked
C10_Witness == HasOptOut /\ what = "module" /\ funcname.type = "str" /\ pc = "returned"

\* Claim C11: when the configured entry-point name is not a string the
\* handler ends with a ConfigError, before any subprocess is invoked and
\* with the docstring lines unchanged.
C11_NonStringNameIsConfigError ==
  /\ []((funcname.type # "str" /\ pc # "handler")
          => (pc = "raised" /\ exc = "ConfigError" /\ calls = <<>>))
  /\ [][funcname.type # "str" => lines' = lines]_vars

\* line is the 'subcommands:' marker
IsMarker(line) == stripNewline(line) = "subcommands:"
\* The index (from 0) of the first marker line of the program's help text
HasMarker == \E i \in 1..Len(prog_help_lines) : IsMarker(prog_help_lines[i])
FirstMarker ==
  CHOOSE n \in 0..(Len(prog_help_lines) - 1) :
    /\ IsMarker(prog_help_lines[n + 1])
    /\ \A k \in 1..n : ~IsMarker(prog_help_lines[k])
\* Claim C12: process_argparser hands the help text to exactly one
\* processor: to process_subprogram_container, with the index of the first
\* marker line, exactly when some line is the marker, and otherwise to
\* process_single_or_subprogram on all the lines.  With a marker the result
\* is the 'Subcommand arguments' heading block followed by what the table
\* builder returned for each subcommand, and nothing else.
C12_DelegatesToOneProcessor ==
  /\ [][pc = "process_argparser"
          => IF HasMarker
             THEN /\ pc' = "container"
                  /\ start_line' = FirstMarker
                  /\ UNCHANGED tableVars
             ELSE /\ pc' = "for_line"
                  /\ caller' = "process_argparser"
                  /\ help_lines' = prog_help_lines
                  /\ lineno' = 0
                  /\ UNCHANGED containerVars]_vars
  /\ [][container_out' # container_out
          => \/ /\ pc = "container"
                /\ container_out' = split(SUBCOMMAND_HEADER(Times(" ", HandlerIndentSize)), "\n")
             \/ /\ pc = "for_line"
                /\ caller = "container"
                /\ container_out' = container_out \o out_lines]_vars
  /\ []((pc = "extend" /\ HasMarker) => result = container_out)
  /\ []((pc = "extend" /\ ~HasMarker) => result = out_lines)
\* The dispatcher has returned a table for a help text with two marker lines
C12_Witness ==
  /\ pc = "extend"
  /\ HasMarker
  /\ FirstMarker = 0
  /\ IsMarker(prog_help_lines[2])
  /\ Len(result) > 3

(***************************************************************************)
(* Further properties of process_single_or_subprogram                      *)
(***************************************************************************)
\* line begins with exactly indent_size blanks before its content
IndentedExactly(line) ==
  /\ Len(line) > indent_size
  /\ \A i \in 1..indent_size : Char(line, i) = " "
  /\ Char(line, indent_size + 1) # " "
\* Claim C13: every non-empty line the table builder emits (heading, title,
\* underline, section prose, rule, header, data row) begins with exactly
\* indent_size blanks before its content.
C13_EveryLineIndented ==
  \A j \in 1..Len(out_lines) : out_lines[j] # "" => IndentedExactly(out_lines[j])

\* A step that emits the table of the buffered rows
Flushes == Len(col1) > 0 /\ col1' = <<>>
\* The fixed padding of the label column: the four characters of markup
\* and one blank
LabelPadding == 5
LabelWidth == SetMax({Len(col1[i]) : i \in 1..Len(col1)}) + LabelPadding
DescWidth == SetMax({Len(col2[i]) : i \in 1..Len(col2)})
\* The k-th line of the table a flush of N rows appends, counted from the
\* first rule line (k = 1), so that the rows are lines 4..N+3
TableLine(k) == Added[Len(Added) - Len(col1) - 5 + k]
\* Claim C14: in every emitted table the label part of the rule lines is as
\* wide as the longest label of the table's rows plus a fixed padding, and
\* the description part as wide as the longest description of these rows
\* only; in every row the label in its markup lies within the label column
\* and is followed by blanks up to the description, and the descriptions of
\* all the rows start at the same column.
C14_ColumnWidths ==
  [][Flushes =>
       LET N == Len(col1)
           rule == Indent \o Times("=", LabelWidth) \o " " \o Times("=", DescWidth)
           desc_at == indent_size + LabelWidth + 6
       IN /\ Len(Added) >= N + 5
          /\ TableLine(1) = rule
          /\ TableLine(3) = rule
          /\ TableLine(N + 4) = rule
          /\ \A i \in 1..N :
               LET row == TableLine(3 + i)
                   label_end == indent_size + Len(col1[i]) + 4
               IN /\ SubSeq(row, 1, label_end) = Indent \o Markup \o col1[i] \o Markup
                  /\ label_end <= indent_size + LabelWidth
                  /\ Len(row) = desc_at - 1 + Len(col2[i])
                  /\ \A c \in (label_end + 1)..(desc_at - 1) : Char(row, c) = " "
                  /\ SubSeq(row, desc_at, Len(row)) = col2[i]]_vars
\* Two tables of different widths have been emitted
C14_Witness ==
  /\ pc = "for_line"
  /\ col1 = <<>>
  /\ \E a, b \in 1..Len(out_lines) :
       /\ a < b
       /\ IsRule(out_lines[a])
       /\ IsRule(out_lines[b])
       /\ Len(out_lines[a]) # Len(out_lines[b])

\* line begins with one of the two canonical header tokens
IsCanonical(line) ==
  \E token \in {"positional arguments:", "optional arguments:"} :
    Len(line) >= Len(token) /\ SubSeq(line, 1, Len(token)) = token
\* Has a canonical header been met before the i-th line of the input, and
\* the branch of the loop that takes the i-th line
StartedBefore(i) == \E j \in 1..(i - 1) : IsCanonical(help_lines[j])
ClassAt(i) == LineClass(Info(help_lines[i]), StartedBefore(i))
\* The last title line among the first n lines (0 when there is none), and
\* the number of rows opened after it
LastTitle(n) ==
  LET titles == {t \in 1..n : ClassAt(t) \in {"header", "title"}}
  IN IF titles = {} THEN 0 ELSE SetMax(titles)
RowsSinceTitle(n) == Cardinality({i \in (LastTitle(n) + 1)..n : ClassAt(i) \in RowClasses})

\* Claim C15: a table holds only rows of the section whose title line most
\* recently preceded them: the rows emitted under a title were all opened
\* after that title line, so that rows met before a second title are not
\* rendered under the second title.
C15_RowsUnderTheirOwnTitle ==
  [][(AtLine /\ Flushes) => Len(col1) <= RowsSinceTitle(lineno)]_vars

\* Lines t..b of the input are a section without rows: a title line, prose
\* lines only, and the blank line that ends it
ZeroRowSection(t, b) ==
  /\ t < b
  /\ ClassAt(t) \in {"header", "title"}
  /\ StartedBefore(t + 1)
  /\ \A i \in (t + 1)..(b - 1) : ClassAt(i) = "section_desc"
  /\ ClassAt(b) = "blank"
\* None of the lines lo..hi of the input is taken by a branch in classes
NoneBetween(lo, hi, classes) == \A i \in lo..hi : ClassAt(i) \notin classes
\* Claim C16: a section with a title, possibly prose, and no rows adds
\* nothing to the output: once the blank line has ended it, a table emitted
\* later carries neither its title nor its prose, unless a later line is a
\* title or a prose line of its own.
C16_ZeroRowSectionIsDropped ==
  [][(AtLine /\ Flushes) =>
       \A t, b \in 1..lineno :
         ZeroRowSection(t, b) =>
           /\ NoneBetween(b + 1, lineno, {"header", "title"}) => section_title = <<>>
           /\ NoneBetween(b + 1, lineno, {"section_desc"}) => section_desc = <<>>]_vars

\* The line matches one of the four option patterns / the prose pattern
OptionShaped(info) ==
  \/ info.found.opt_only # None
  \/ info.found.opt_plus_args # None
  \/ info.found.opt_plus_desc # None
  \/ info.found.opt_plus_args_desc # None
ProseShaped(info) == info.found.section_desc # None
\* The line is neither blank, nor a canonical header, nor a section title
BelowTitles(info) ==
  /\ Len(info.stripped) > 0
  /\ ~IsCanonical(info.line)
  /\ info.found.section_title = None
\* Claim C17: the first matching shape wins, in the order blank, canonical
\* header, section title, the four option shapes, continuation, prose; so
\* once started, a line of none of the first three shapes that matches an
\* option pattern opens a row, also when it matches the prose pattern.
C17_OptionShapeBeforeProse ==
  [][(AtLine /\ started /\ BelowTitles(Info(NextLine)) /\ OptionShaped(Info(NextLine)))
       => /\ Len(col1') = Len(col1) + 1
          /\ Len(col2') = Len(col2) + 1
          /\ section_desc' = section_desc]_vars

\* Claim C18: a line that begins with one of the two canonical header
\* tokens starts a new section and sets started, whatever follows the token
\* on the line and whatever started was; it never raises an error.
C18_CanonicalHeaderStartsSection ==
  [][(AtLine /\ IsCanonical(Info(NextLine).line))
       => /\ started' = TRUE
          /\ Len(section_title') = 2
          /\ exc' = "none"
          /\ pc' = "for_line"]_vars

\* A generic 'name:' line: word characters first, a colon last, and not one
\* of the canonical headers; NameOf is the text before the colon
IsNameLine(info) == info.found.section_title # None /\ ~IsCanonical(info.line)
NameOf(info) == SubSeq(info.line, 1, Len(info.line) - 1)
BeginsWithUsage(info) == Len(info.line) >= 6 /\ SubSeq(info.line, 1, 6) = "usage:"
\* Claim C19 as stated: while started is false a generic 'name:' line
\* leaves the section title, the prose, the row buffers, the started flag
\* and the output unchanged.
C19_NameLineBeforeStartIsIgnored ==
  [][(AtLine /\ ~started /\ IsNameLine(Info(NextLine)))
       => UNCHANGED <<section_title, section_desc, col1, col2, started, out_lines>>]_vars
\* Claim C19, amended: while started is false a generic 'name:' line that
\* does not begin with 'usage:' replaces the section title by its own title
\* lines, and one that begins with 'usage:' changes nothing; either way the
\* prose, the row buffers, the started flag and the output are unchanged.
\* Nothing is buffered or emitted before started is set, and the step that
\* sets started replaces the section title, so a title taken before the
\* start never reaches the output.
C19_NameLineBeforeStartSetsTitleOnly ==
  /\ [][(AtLine /\ ~started /\ IsNameLine(Info(NextLine)))
          => /\ UNCHANGED <<section_desc, col1, col2, started, out_lines>>
             /\ exc' = "none"
             /\ section_title' =
                  IF BeginsWithUsage(Info(NextLine)) THEN section_title
                  ELSE <<Indent \o capitalize(NameOf(Info(NextLine))),
                         Indent \o Times("\"", Len(NameOf(Info(NextLine))))>>]_vars
  /\ [](~started => (out_lines = <<>> /\ col1 = <<>> /\ col2 = <<>> /\ section_desc = <<>>))
  /\ [][(~started /\ started' /\ exc' = "none")
          => section_title' = <<Indent \o capitalize(NameOf(Info(NextLine))),
                                Indent \o Times(".", Len(NameOf(Info(NextLine))))>>]_vars
\* A 'name:' line has been taken as a title before the start
C19_Witness ==
  /\ pc = "for_line"
  /\ ~started
  /\ lineno >= 1
  /\ IsNameLine(Info(help_lines[lineno]))
  /\ Len(section_title) = 2

\* No line of the input begins with a canonical header token
NoCanonicalHeader == \A i \in 1..Len(help_lines) : ~IsCanonical(Info(help_lines[i]).line)
\* Claim C20: when no line of the input begins with 'positional arguments:'
\* or 'optional arguments:', started never becomes true, no row and no prose
\* is ever accumulated, and the function returns an empty output, whatever
\* option-shaped lines, section titles or blank lines the input contains.
C20_NoHeaderNoOutput ==
  NoCanonicalHeader
    => /\ ~started
       /\ col1 = <<>> /\ col2 = <<>>
       /\ section_desc = <<>>
       /\ out_lines = <<>>
       /\ exc = "none"
       /\ (TableReturned => result = <<>>)
\* The function has returned on a header-less input that holds an
\* option-shaped line, a section title and a blank line
C20_Witness ==
  /\ TableReturned
  /\ NoCanonicalHeader
  /\ \E i \in 1..Len(help_lines) : OpensRow(help_lines[i])
  /\ \E i \in 1..Len(help_lines) : IsNameLine(Info(help_lines[i]))
  /\ \E i \in 1..Len(help_lines) : Info(help_lines[i]).stripped = ""
====
